---- MODULE Spec2Model ----
(***************************************************************************)
(* A model of package queue (src/pkg/queue/queue.go, lines 1-317): the     *)
(* in-memory message queue, a singly linked chain of nodes with a sentinel *)
(* tail, one mutex, and a retention policy.                                *)
(*                                                                         *)
(* The heap is the sequence `nodes`: a node's address is its index, Nil is *)
(* the nil pointer.  Goroutines are the processes of Procs; each public    *)
(* method is an invocation step, the acquisition of q.mu, and the critical *)
(* section, which ends with the deferred Unlock and the return.  The loop  *)
(* of AddMany takes one step per appended value.  A nil dereference is a   *)
(* Go panic: the deferred Unlock runs and the program stops.               *)
(*                                                                         *)
(* Offsets are int64 in the source.  The model keeps two's complement      *)
(* arithmetic at OffsetBits bits, so that the wraparound is reachable.     *)
(* Time is counted in hours.                                               *)
(***************************************************************************)
EXTENDS Integers, Sequences, FiniteSets, TLC

\* ------------------------------------------------------------- bounds
Procs == {"g1", "g2"}
Vals == {"a", "b"}
\* width of the offset type in the model (64 in the source)
OffsetBits == 3
\* messages enqueued over the life of the queue
MaxAdds == 4
\* messages held at one time (the heap is finite)
MaxLive == 3
\* longest batch given to AddMany
MaxBatch == 2
\* largest limit given to ReadMany; the smallest is MinLimit
MaxLimit == 3
MinLimit == 0 - 1
\* largest number given to WithRetentionCount and WithRetentionTime; the
\* smallest is MinParam
MaxParam == 2
MinParam == 0 - 1
\* the clock runs from 0 to MaxTime
MaxTime == 2

\* ---------------------------------------------------------- constants
Nil == 0
NoProc == "none"
ErrNil == "nil"
ErrQueueIsEmpty == "queue is empty"
ErrImproperlyInitializedQueue == "improperly initialized queue, tail is nil"
ErrUnimplementedMethod == "unimplemented"
ErrInvalidLimit == "limit must be positive"
ErrInvalidConfig == "invalid configuration parameter"

\* time.Time{}: the LogAppendTime of a Message that was never stamped
ZeroTime == -1
\* the duration time.Time.Sub saturates at
MaxDuration == 1000000

\* ------------------------------------------------- int64, at OffsetBits
MaxOffset == 2 ^ (OffsetBits - 1) - 1
MinOffset == 0 - 2 ^ (OffsetBits - 1)
MaxInt == MaxOffset

\* two's complement wraparound of Go's signed arithmetic
Wrap(x) == ((x - MinOffset) % (2 ^ OffsetBits)) + MinOffset

Min(a, b) == IF a <= b THEN a ELSE b
Max(a, b) == IF a >= b THEN a ELSE b

\* currTime.Sub(t)
Sub(now, t) == IF t = ZeroTime THEN MaxDuration ELSE now - t

\* ------------------------------------------------------------- config
ZeroConfig ==
    [name |-> "", retentionCount |-> 0, retentionTime |-> 0, autoCleanup |-> FALSE]

DefaultRetentionCount == 1000000000
DefaultRetentionTime == 24

DefaultConfig ==
    [name |-> "",
     retentionCount |-> DefaultRetentionCount,
     retentionTime |-> DefaultRetentionTime,
     autoCleanup |-> FALSE]

WithName(c, name) == [config |-> [c EXCEPT !.name = name], err |-> ErrNil]

\* WithRetentionCount with < for <=
WithRetentionCountLoose(c, retentionCount) ==
    IF retentionCount < 0
    THEN [config |-> c, err |-> ErrInvalidConfig]
    ELSE [config |-> [c EXCEPT !.retentionCount = retentionCount], err |-> ErrNil]

WithRetentionCount(c, retentionCount) ==
    IF retentionCount <= 0
    THEN [config |-> c, err |-> ErrInvalidConfig]
    ELSE [config |-> [c EXCEPT !.retentionCount = retentionCount], err |-> ErrNil]

WithRetentionTime(c, retentionTime) ==
    IF retentionTime <= 0
    THEN [config |-> c, err |-> ErrInvalidConfig]
    ELSE [config |-> [c EXCEPT !.retentionTime = retentionTime], err |-> ErrNil]

\* WithAutoCleanup that starts from the default config, not from its receiver
WithAutoCleanupOfDefault(c, autoCleanup) ==
    [config |-> [DefaultConfig EXCEPT !.autoCleanup = autoCleanup], err |-> ErrNil]

WithAutoCleanup(c, autoCleanup) ==
    [config |-> [c EXCEPT !.autoCleanup = autoCleanup], err |-> ErrNil]

\* ------------------------------------------------------ messages, nodes
ZeroMessage == [Val |-> "", Offset |-> 0, LogAppendTime |-> ZeroTime]

\* NewNode that gives every node the offset 0
NewNodeZero(offset) ==
    [message |-> [Val |-> "", Offset |-> 0, LogAppendTime |-> ZeroTime],
     next |-> Nil]

NewNode(offset) ==
    [message |-> [Val |-> "", Offset |-> offset, LogAppendTime |-> ZeroTime],
     next |-> Nil]

\* A queue value: the heap it points into, head, tail and config.
NewQueueWithConfig(c) ==
    [nodes |-> <<[message |-> ZeroMessage, next |-> Nil]>>,
     head |-> 1, tail |-> 1, config |-> c]

NewQueue == NewQueueWithConfig(DefaultConfig)

\* Queue{}: a value made without the constructor
ManualQueue == [nodes |-> <<>>, head |-> Nil, tail |-> Nil, config |-> ZeroConfig]

\* q.head.message and q.tail.message can be read
Deref(q) == q.head # Nil /\ q.tail # Nil

\* isEmptyNoLock with >= for ==
isEmptyNoLockOrdered(q) ==
    q.nodes[q.head].message.Offset >= q.nodes[q.tail].message.Offset

isEmptyNoLock(q) ==
    q.nodes[q.head].message.Offset = q.nodes[q.tail].message.Offset

\* lengthNoLock with the operands of the subtraction swapped
lengthNoLockSwapped(q) ==
    Wrap(q.nodes[q.head].message.Offset - q.nodes[q.tail].message.Offset)

lengthNoLock(q) ==
    Wrap(q.nodes[q.tail].message.Offset - q.nodes[q.head].message.Offset)

\* what Advance and the walks return once a nil node was dereferenced
PanicPtr == -1

RECURSIVE Advance(_, _, _)
\* node = node.next, k times
Advance(ns, n, k) ==
    IF k <= 0 THEN n
    ELSE IF n = Nil \/ n = PanicPtr THEN PanicPtr
    ELSE Advance(ns, ns[n].next, k - 1)

\* toRemove that keeps one message fewer
toRemoveOneMore(length, retentionCount) == Max(0, length - retentionCount + 1)

\* the first pass of cleanup: how many messages exceed retentionCount
toRemove(length, retentionCount) == Max(0, length - retentionCount)

\* the loop condition of the second pass of cleanup, for a head that is not nil
Expired(ns, h, tailOffset, now, retentionTime) ==
    /\ ns[h].message.Offset < tailOffset
    /\ Sub(now, ns[h].message.LogAppendTime) > retentionTime

RECURSIVE AgePassUncounted(_, _, _, _, _)
\* AgePass without removed++
AgePassUncounted(ns, h, tailOffset, now, retentionTime) ==
    IF h = Nil THEN [head |-> h, removed |-> 0, panic |-> TRUE]
    ELSE IF Expired(ns, h, tailOffset, now, retentionTime)
    THEN AgePassUncounted(ns, ns[h].next, tailOffset, now, retentionTime)
    ELSE [head |-> h, removed |-> 0, panic |-> FALSE]

\* AgePass with an if for its loop: it evicts one expired message at most
AgePassOnce(ns, h, tailOffset, now, retentionTime) ==
    IF h = Nil THEN [head |-> h, removed |-> 0, panic |-> TRUE]
    ELSE IF Expired(ns, h, tailOffset, now, retentionTime)
    THEN [head |-> ns[h].next, removed |-> 1, panic |-> FALSE]
    ELSE [head |-> h, removed |-> 0, panic |-> FALSE]

RECURSIVE AgePass(_, _, _, _, _)
\* the second pass of cleanup: q.head = q.head.next while the head is expired
AgePass(ns, h, tailOffset, now, retentionTime) ==
    IF h = Nil THEN [head |-> h, removed |-> 0, panic |-> TRUE]
    ELSE IF Expired(ns, h, tailOffset, now, retentionTime)
    THEN LET r == AgePass(ns, ns[h].next, tailOffset, now, retentionTime)
         IN  [r EXCEPT !.removed = @ + 1]
    ELSE [head |-> h, removed |-> 0, panic |-> FALSE]

\* cleanup that sets q.head to the first node the queue ever had
cleanupRewinds(q, now) ==
    [head |-> IF q.tail = Nil THEN q.head ELSE 1, removed |-> 0, panic |-> ~Deref(q)]

\* the internal cleanup: the new head, the count of removed messages, and
\* whether a nil pointer was dereferenced on the way
cleanup(q, now) ==
    IF ~Deref(q) THEN [head |-> q.head, removed |-> 0, panic |-> TRUE]
    ELSE LET length == lengthNoLock(q)
             k == toRemove(length, q.config.retentionCount)
             node == Advance(q.nodes, q.head, k)
         IN  IF node = PanicPtr
             THEN [head |-> q.head, removed |-> k, panic |-> TRUE]
             ELSE LET r == AgePass(q.nodes, node, q.nodes[q.tail].message.Offset,
                                   now, q.config.retentionTime)
                  IN  [head |-> r.head, removed |-> k + r.removed, panic |-> r.panic]

\* autoCleanup that does not look at the config
autoCleanupAlways(q, now) == cleanup(q, now)

\* if q.config.autoCleanup { q.cleanup() }
autoCleanup(q, now) ==
    IF q.config.autoCleanup THEN cleanup(q, now)
    ELSE [head |-> q.head, removed |-> 0, panic |-> FALSE]

\* ------------------------------------------------------------ results
\* What a call returned: its error and the value of its result type (msg, msgs,
\* n or b).  For the record it also holds the goroutine that called, the limit
\* ReadMany was called with, and the addresses the returned messages were read at.
NoRet ==
    [proc |-> NoProc, op |-> "none", limit |-> 0, err |-> ErrNil,
     msg |-> ZeroMessage, msgs |-> <<>>, ids |-> <<>>, n |-> 0, b |-> FALSE]

\* the outcome of a critical section: the queue it leaves, what it returns
Done(q, r) == [q |-> q, ret |-> r, panic |-> FALSE]
Panics(q) == [q |-> q, ret |-> NoRet, panic |-> TRUE]

\* ------------------------------------------------- critical sections
IsEmptyBody(q, now) ==
    LET c == autoCleanup(q, now)
        q1 == [q EXCEPT !.head = c.head]
    IN  IF c.panic \/ ~Deref(q1) THEN Panics(q1)
        ELSE Done(q1, [NoRet EXCEPT !.op = "IsEmpty", !.b = isEmptyNoLock(q1)])

LengthBody(q, now) ==
    LET c == autoCleanup(q, now)
        q1 == [q EXCEPT !.head = c.head]
    IN  IF c.panic \/ ~Deref(q1) THEN Panics(q1)
        ELSE Done(q1, [NoRet EXCEPT !.op = "Length", !.n = lengthNoLock(q1)])

\* AddOne with the value written to the new sentinel, not to the tail it fills
AddOneWrongSlot(q, val, appendTime) ==
    LET n == Len(q.nodes) + 1
        filled == [q.nodes EXCEPT ![q.tail].message.LogAppendTime = appendTime,
                                  ![q.tail].next = n]
        new == NewNode(Wrap(q.nodes[q.tail].message.Offset + 1))
    IN  [q EXCEPT !.nodes = Append(filled, [new EXCEPT !.message.Val = val]),
                  !.tail = n]

\* AddOne without q.tail.next = newNode
AddOneUnlinked(q, val, appendTime) ==
    LET n == Len(q.nodes) + 1
        filled == [q.nodes EXCEPT ![q.tail].message.Val = val,
                                  ![q.tail].message.LogAppendTime = appendTime]
    IN  [q EXCEPT !.nodes = Append(filled,
                                   NewNode(Wrap(q.nodes[q.tail].message.Offset + 1))),
                  !.tail = n]

\* one iteration of the loop of AddMany: fill the tail, link a new sentinel
AddOne(q, val, appendTime) ==
    LET n == Len(q.nodes) + 1
        filled == [q.nodes EXCEPT ![q.tail].message.Val = val,
                                  ![q.tail].message.LogAppendTime = appendTime,
                                  ![q.tail].next = n]
    IN  [q EXCEPT !.nodes = Append(filled,
                                   NewNode(Wrap(q.nodes[q.tail].message.Offset + 1))),
                  !.tail = n]

\* AddManyEnd without the automatic cleanup
AddManyEndNoCleanup(q, name, now) == Done(q, [NoRet EXCEPT !.op = name])

\* AddMany after its loop: the automatic cleanup and the return
AddManyEnd(q, name, now) ==
    LET c == autoCleanup(q, now)
        q1 == [q EXCEPT !.head = c.head]
    IN  IF c.panic THEN Panics(q1)
        ELSE Done(q1, [NoRet EXCEPT !.op = name])

\* invalidLimit with < for <=
invalidLimitStrict(limit) == limit < 0

\* ReadMany's first check, before it takes the lock: if limit <= 0
invalidLimit(limit) == limit <= 0

\* what ReadMany returns for an invalid limit
ReadManyInvalid(limit) ==
    [NoRet EXCEPT !.op = "ReadMany", !.limit = limit, !.err = ErrInvalidLimit]

\* clampLimit that never clamps
clampLimitNot(limit, length) == limit

\* limit = min(limit, int(length)) when length <= math.MaxInt
clampLimit(limit, length) ==
    IF length <= MaxInt THEN Min(limit, length) ELSE limit

RECURSIVE Walk(_, _, _)
\* the addresses of the k nodes read from n on; PanicPtr ends the walk of a nil node
Walk(ns, n, k) ==
    IF k <= 0 THEN <<>>
    ELSE IF n = Nil THEN <<PanicPtr>>
    ELSE <<n>> \o Walk(ns, ns[n].next, k - 1)

\* ReadManyBody without its last assignment, q.head = node
ReadManyKeepsHead(q, limit0, now) ==
    LET c == autoCleanup(q, now)
        q1 == [q EXCEPT !.head = c.head]
    IN  IF c.panic \/ ~Deref(q1) THEN Panics(q1)
        ELSE LET limit == clampLimit(limit0, lengthNoLock(q1))
                 ids == Walk(q1.nodes, q1.head, limit)
             IN  IF isEmptyNoLock(q1)
                 THEN Done(q1, [NoRet EXCEPT !.op = "ReadMany", !.limit = limit0,
                                             !.err = ErrQueueIsEmpty])
                 ELSE IF limit < 0 \/ \E i \in 1..Len(ids) : ids[i] = PanicPtr
                 THEN Panics(q1)
                 ELSE Done(q1, [NoRet EXCEPT !.op = "ReadMany",
                                             !.limit = limit0,
                                             !.msgs = [i \in 1..Len(ids) |->
                                                         q1.nodes[ids[i]].message],
                                             !.ids = ids])

\* ReadManyBody without its check of isEmptyNoLock
ReadManyNoEmptyCheck(q, limit0, now) ==
    LET c == autoCleanup(q, now)
        q1 == [q EXCEPT !.head = c.head]
    IN  IF c.panic \/ ~Deref(q1) THEN Panics(q1)
        ELSE LET limit == clampLimit(limit0, lengthNoLock(q1))
                 ids == Walk(q1.nodes, q1.head, limit)
             IN  IF limit < 0 \/ \E i \in 1..Len(ids) : ids[i] = PanicPtr
                 THEN Panics(q1)
                 ELSE Done([q1 EXCEPT !.head = Advance(q1.nodes, q1.head, limit)],
                           [NoRet EXCEPT !.op = "ReadMany",
                                         !.limit = limit0,
                                         !.msgs = [i \in 1..Len(ids) |->
                                                     q1.nodes[ids[i]].message],
                                         !.ids = ids])

\* ReadMany once the automatic cleanup has run: the clamp of the limit, the
\* check for the empty queue and the walk from head
ReadManyFrom(q1, limit0) ==
    IF ~Deref(q1) THEN Panics(q1)
    ELSE LET length == lengthNoLock(q1)
             limit == clampLimit(limit0, length)
         IN  IF isEmptyNoLock(q1)
             THEN Done(q1, [NoRet EXCEPT !.op = "ReadMany", !.limit = limit0,
                                         !.err = ErrQueueIsEmpty])
             ELSE IF limit < 0 THEN Panics(q1)
             ELSE LET ids == Walk(q1.nodes, q1.head, limit)
                  IN  IF \E i \in 1..Len(ids) : ids[i] = PanicPtr THEN Panics(q1)
                      ELSE Done([q1 EXCEPT !.head = Advance(q1.nodes, q1.head, limit)],
                                [NoRet EXCEPT !.op = "ReadMany",
                                              !.limit = limit0,
                                              !.msgs = [i \in 1..Len(ids) |->
                                                          q1.nodes[ids[i]].message],
                                              !.ids = ids])

\* ReadMany under the lock: the automatic cleanup, then the read
ReadManyBody(q, limit0, now) ==
    CHOOSE r \in {IF c.panic THEN Panics([q EXCEPT !.head = c.head])
                  ELSE ReadManyFrom([q EXCEPT !.head = c.head], limit0) :
                      c \in {autoCleanup(q, now)}} : TRUE

\* Read once ReadMany(1) has returned r
ReadFirst(r) ==
    IF r.panic THEN r
    ELSE IF r.ret.err # ErrNil
    THEN Done(r.q, [NoRet EXCEPT !.op = "Read", !.limit = 1, !.err = r.ret.err])
    ELSE IF Len(r.ret.msgs) = 0 THEN Panics(r.q)
    ELSE Done(r.q, [NoRet EXCEPT !.op = "Read", !.limit = 1,
                                 !.msg = r.ret.msgs[1],
                                 !.ids = <<r.ret.ids[1]>>])

\* Read: ReadMany(1), then the first message or the error
ReadBody(q, now) ==
    CHOOSE res \in {ReadFirst(r) : r \in {ReadManyBody(q, 1, now)}} : TRUE

\* PeekNextBody that moves head past the message it returns
PeekNextConsumes(q, now) ==
    LET c == autoCleanup(q, now)
        q1 == [q EXCEPT !.head = c.head]
    IN  IF c.panic \/ ~Deref(q1) THEN Panics(q1)
        ELSE IF isEmptyNoLock(q1)
        THEN Done(q1, [NoRet EXCEPT !.op = "PeekNext", !.err = ErrQueueIsEmpty])
        ELSE Done([q1 EXCEPT !.head = q1.nodes[q1.head].next],
                  [NoRet EXCEPT !.op = "PeekNext",
                                !.msg = q1.nodes[q1.head].message,
                                !.ids = <<q1.head>>])

PeekNextBody(q, now) ==
    LET c == autoCleanup(q, now)
        q1 == [q EXCEPT !.head = c.head]
    IN  IF c.panic \/ ~Deref(q1) THEN Panics(q1)
        ELSE IF isEmptyNoLock(q1)
        THEN Done(q1, [NoRet EXCEPT !.op = "PeekNext", !.err = ErrQueueIsEmpty])
        ELSE Done(q1, [NoRet EXCEPT !.op = "PeekNext",
                                    !.msg = q1.nodes[q1.head].message,
                                    !.ids = <<q1.head>>])

\* PeekLastBody that returns no error
PeekLastNoError == [NoRet EXCEPT !.op = "PeekLast"]

PeekLastBody ==
    [NoRet EXCEPT !.op = "PeekLast", !.err = ErrUnimplementedMethod]

CleanupBody(q, now) ==
    LET c == cleanup(q, now)
        q1 == [q EXCEPT !.head = c.head]
    IN  IF c.panic THEN Panics(q1)
        ELSE Done(q1, [NoRet EXCEPT !.op = "Cleanup", !.n = c.removed])

\* ----------------------------------------------------------- the state
VARIABLES
    nodes,      \* the heap: nodes[i] is the node at address i
    head,       \* q.head
    tail,       \* q.tail
    config,     \* q.config
    mu,         \* q.mu: TRUE when locked
    pc,         \* where each goroutine is: idle, lock, cs, loop, panic
    op,         \* the call each goroutine is in: its method and arguments
    idx,        \* AddMany's loop: the index of the next value to append
    appendTime, \* AddMany's appendTime
    ret,        \* what the call that returned in the last step returned, and to whom
    clock,      \* time.Now()
    panicked,   \* a goroutine panicked: the program is gone
    added,      \* history: how many values were appended
    fifo,       \* history: the values appended and not yet removed, in order
    delivered,  \* history: the addresses of the nodes Read and ReadMany returned
    evicted,    \* history: the addresses of the nodes cleanup moved head past
    test,       \* the test harness: what its goroutines did and read
    builder     \* the caller's QueueConfig values: the receiver of the last
                \* config call, its arguments and what it returned

vars ==
    <<nodes, head, tail, config, mu, pc, op, idx, appendTime, ret, clock,
      panicked, added, fifo, delivered, evicted, test, builder>>

\* the Queue value the goroutines share
Q == [nodes |-> nodes, head |-> head, tail |-> tail, config |-> config]

NoOp == [name |-> "none", vals |-> <<>>, limit |-> 0]

\* the harness before it starts: no goroutine has added or read
NoTest ==
    [stage |-> [p \in Procs |-> "start"],
     vals |-> [p \in Procs |-> ""],
     errs |-> [p \in Procs |-> ErrNil],
     last |-> ErrNil]

\* config := DefaultConfig(): no method of QueueConfig was called yet
NoBuild ==
    [recv |-> DefaultConfig, call |-> "DefaultConfig", s |-> "", n |-> 0, b |-> FALSE,
     out |-> DefaultConfig, err |-> ErrNil]

\* the configs the model builds queues with
LowCount == WithRetentionCount(DefaultConfig, 1).config
LowTime == WithRetentionTime(DefaultConfig, 1).config
LowCountAuto == WithAutoCleanup(WithRetentionCount(DefaultConfig, 2).config, TRUE).config
LowTimeAuto == WithAutoCleanup(LowTime, TRUE).config
LowBothAuto == WithRetentionTime(LowCountAuto, 1).config

InitQueues == {NewQueue, ManualQueue, NewQueueWithConfig(LowBothAuto)}

InitQueuesSeq ==
    {NewQueue, ManualQueue}
        \cup {NewQueueWithConfig(c) :
                  c \in {LowCount, LowTime, LowCountAuto, LowTimeAuto, LowBothAuto}}

InitWith(q) ==
    /\ nodes = q.nodes
    /\ head = q.head
    /\ tail = q.tail
    /\ config = q.config
    /\ mu = FALSE
    /\ pc = [p \in Procs |-> "idle"]
    /\ op = [p \in Procs |-> NoOp]
    /\ idx = [p \in Procs |-> 1]
    /\ appendTime = [p \in Procs |-> 0]
    /\ ret = NoRet
    /\ clock = 0
    /\ panicked = FALSE
    /\ added = 0
    /\ fifo = <<>>
    /\ delivered = {}
    /\ evicted = {}
    /\ test = NoTest
    /\ builder = NoBuild

Init == \E q \in InitQueues : InitWith(q)

InitSeq == \E q \in InitQueuesSeq : InitWith(q)

\* ------------------------------------------------------------ history
RECURSIVE Between(_, _, _)
\* the addresses from node `from` up to, not including, node `to`
Between(ns, from, to) ==
    IF from = to \/ from = Nil \/ from = PanicPtr THEN {}
    ELSE {from} \cup Between(ns, ns[from].next, to)

\* the messages the queue holds, by the history
Live == Len(fifo)

\* the values a call in progress has yet to append
Pending(p) ==
    IF pc[p] \in {"lock", "cs", "loop"} /\ op[p].name \in {"Add", "AddMany"}
    THEN Len(op[p].vals) - (idx[p] - 1)
    ELSE 0

RECURSIVE SumPending(_)
SumPending(S) ==
    IF S = {} THEN 0
    ELSE LET p == CHOOSE x \in S : TRUE IN Pending(p) + SumPending(S \ {p})

\* the heap has room for k more messages
Room(k) ==
    /\ added + SumPending(Procs) + k <= MaxAdds
    /\ Live + SumPending(Procs) + k <= Min(MaxLive, MaxOffset)

Batches == UNION {[1..k -> Vals] : k \in 0..MaxBatch}

\* ------------------------------------------------------- invocations
\* a call that takes the lock first
Invoke(p, o) ==
    /\ ~panicked
    /\ pc[p] = "idle"
    /\ pc' = [pc EXCEPT ![p] = "lock"]
    /\ op' = [op EXCEPT ![p] = o]
    /\ ret' = NoRet
    /\ UNCHANGED <<nodes, head, tail, config, builder, mu, idx, appendTime, clock,
                   panicked, added, fifo, delivered, evicted>>

\* a call that returns r without touching the lock
ReturnAtOnce(p, r) ==
    /\ ~panicked
    /\ pc[p] = "idle"
    /\ ret' = [r EXCEPT !.proc = p]
    /\ op' = [op EXCEPT ![p] = NoOp]
    /\ UNCHANGED <<nodes, head, tail, config, builder, mu, pc, idx, appendTime, clock,
                   panicked, added, fifo, delivered, evicted>>

Call(p, o) == Invoke(p, o) /\ UNCHANGED test

Answer(p, r) == ReturnAtOnce(p, r) /\ UNCHANGED test

CallIsEmpty(p) == Call(p, [NoOp EXCEPT !.name = "IsEmpty"])

CallLength(p) == Call(p, [NoOp EXCEPT !.name = "Length"])

CallAdd(p) ==
    \E v \in Vals :
        /\ Room(1)
        /\ Call(p, [NoOp EXCEPT !.name = "Add", !.vals = <<v>>])

CallAddMany(p) ==
    \E vs \in Batches :
        /\ Room(Len(vs))
        /\ Call(p, [NoOp EXCEPT !.name = "AddMany", !.vals = vs])

CallRead(p) == Call(p, [NoOp EXCEPT !.name = "Read", !.limit = 1])

CallReadMany(p) ==
    \E limit \in MinLimit..MaxLimit :
        IF invalidLimit(limit)
        THEN Answer(p, ReadManyInvalid(limit))
        ELSE Call(p, [NoOp EXCEPT !.name = "ReadMany", !.limit = limit])

CallPeekNext(p) == Call(p, [NoOp EXCEPT !.name = "PeekNext"])

CallPeekLast(p) == Answer(p, PeekLastBody)

CallCleanup(p) == Call(p, [NoOp EXCEPT !.name = "Cleanup"])

\* ------------------------------------------------------------ the heap
RECURSIVE Reach(_, _)
\* the addresses reachable from node n
Reach(ns, n) ==
    IF n = Nil \/ n = PanicPtr THEN {} ELSE {n} \cup Reach(ns, ns[n].next)

\* a cell the garbage collector reclaimed
Freed == [message |-> ZeroMessage, next |-> Nil]

\* the heap once the nodes no pointer leads to are reclaimed
Collect(ns, h, t) ==
    [i \in 1..Len(ns) |-> IF i \in Reach(ns, h) \cup Reach(ns, t) THEN ns[i] ELSE Freed]

\* ------------------------------------------------------------ q.mu
\* Lock that does not wait for the mutex to be free
LockNoWait(p) ==
    /\ ~panicked
    /\ pc[p] = "lock"
    /\ mu' = TRUE
    /\ pc' = [pc EXCEPT ![p] = "cs"]
    /\ ret' = NoRet
    /\ UNCHANGED <<nodes, head, tail, config, builder, op, idx, appendTime, clock,
                   panicked, added, fifo, delivered, evicted, test>>

\* q.mu.Lock()
Lock(p) ==
    /\ ~panicked
    /\ pc[p] = "lock"
    /\ mu = FALSE
    /\ mu' = TRUE
    /\ pc' = [pc EXCEPT ![p] = "cs"]
    /\ ret' = NoRet
    /\ UNCHANGED <<nodes, head, tail, config, builder, op, idx, appendTime, clock,
                   panicked, added, fifo, delivered, evicted, test>>

\* the end of a critical section: the queue is left as r.q, the deferred
\* q.mu.Unlock() runs, and the call returns r.ret or the panic goes on
Return(p, r) ==
    \E x \in {r} :
    /\ nodes' = Collect(x.q.nodes, x.q.head, x.q.tail)
    /\ head' = x.q.head
    /\ tail' = x.q.tail
    /\ mu' = FALSE
    /\ panicked' = x.panic
    /\ pc' = [pc EXCEPT ![p] = IF x.panic THEN "panic" ELSE "idle"]
    /\ ret' = [x.ret EXCEPT !.proc = p]
    /\ op' = [op EXCEPT ![p] = NoOp]
    /\ idx' = [idx EXCEPT ![p] = 1]
    /\ appendTime' = [appendTime EXCEPT ![p] = 0]
    /\ LET gone == Between(x.q.nodes, head, x.q.head)
           read == IF x.ret.op \in {"Read", "ReadMany"}
                   THEN {x.ret.ids[i] : i \in 1..Len(x.ret.ids)} ELSE {}
       IN  /\ delivered' = delivered \cup read
           /\ evicted' = evicted \cup (gone \ read)
           /\ fifo' = SubSeq(fifo, Min(Cardinality(gone), Len(fifo)) + 1, Len(fifo))
    /\ UNCHANGED <<config, builder, clock, added>>

\* ------------------------------------------------- the methods' bodies
Finish(p, r) == Return(p, r) /\ UNCHANGED test

InCS(p, name) == ~panicked /\ pc[p] = "cs" /\ op[p].name = name

IsEmpty(p) == InCS(p, "IsEmpty") /\ Finish(p, IsEmptyBody(Q, clock))

Length(p) == InCS(p, "Length") /\ Finish(p, LengthBody(Q, clock))

\* AddMany up to its loop: the check of q.tail, and appendTime := time.Now()
AddManyBegin(p) ==
    /\ ~panicked
    /\ pc[p] = "cs"
    /\ op[p].name \in {"Add", "AddMany"}
    /\ IF tail = Nil
       THEN Finish(p, Done(Q, [NoRet EXCEPT !.op = op[p].name,
                                            !.err = ErrImproperlyInitializedQueue]))
       ELSE /\ pc' = [pc EXCEPT ![p] = "loop"]
            /\ appendTime' = [appendTime EXCEPT ![p] = clock]
            /\ idx' = [idx EXCEPT ![p] = 1]
            /\ ret' = NoRet
            /\ UNCHANGED <<nodes, head, tail, config, builder, mu, op, clock,
                           panicked, added, fifo, delivered, evicted, test>>

\* one iteration of AddMany's loop
AddManyStep(p) ==
    /\ ~panicked
    /\ pc[p] = "loop"
    /\ idx[p] <= Len(op[p].vals)
    /\ LET q1 == AddOne(Q, op[p].vals[idx[p]], appendTime[p])
       IN  /\ nodes' = q1.nodes
           /\ head' = q1.head
           /\ tail' = q1.tail
    /\ added' = added + 1
    /\ fifo' = Append(fifo, op[p].vals[idx[p]])
    /\ idx' = [idx EXCEPT ![p] = @ + 1]
    /\ ret' = NoRet
    /\ UNCHANGED <<config, builder, mu, pc, op, appendTime, clock, panicked,
                   delivered, evicted, test>>

\* AddMany that, after its loop, calls the public Cleanup, which locks q.mu,
\* where it has the internal cleanup
AddManyReturnRelocks(p) ==
    /\ ~panicked
    /\ pc[p] = "loop"
    /\ idx[p] > Len(op[p].vals)
    /\ IF config.autoCleanup
       THEN /\ pc' = [pc EXCEPT ![p] = "lock"]
            /\ ret' = NoRet
            /\ UNCHANGED <<nodes, head, tail, config, builder, mu, op, idx, appendTime,
                           clock, panicked, added, fifo, delivered, evicted, test>>
       ELSE Finish(p, AddManyEndNoCleanup(Q, op[p].name, clock))

\* AddMany that returns once it has appended one value
AddManyReturnEarly(p) ==
    /\ ~panicked
    /\ pc[p] = "loop"
    /\ idx[p] > Min(1, Len(op[p].vals))
    /\ Finish(p, AddManyEnd(Q, op[p].name, clock))

\* AddMany after its loop
AddManyReturn(p) ==
    /\ ~panicked
    /\ pc[p] = "loop"
    /\ idx[p] > Len(op[p].vals)
    /\ Finish(p, AddManyEnd(Q, op[p].name, clock))

Read(p) == InCS(p, "Read") /\ Finish(p, ReadBody(Q, clock))

ReadMany(p) == InCS(p, "ReadMany") /\ Finish(p, ReadManyBody(Q, op[p].limit, clock))

PeekNext(p) == InCS(p, "PeekNext") /\ Finish(p, PeekNextBody(Q, clock))

Cleanup(p) == InCS(p, "Cleanup") /\ Finish(p, CleanupBody(Q, clock))

\* time passes
Tick ==
    /\ ~panicked
    /\ clock < MaxTime
    /\ clock' = clock + 1
    /\ ret' = NoRet
    /\ UNCHANGED <<nodes, head, tail, config, builder, mu, pc, op, idx, appendTime,
                   panicked, added, fifo, delivered, evicted, test>>

\* a step of goroutine p
Step(p) ==
    \/ CallIsEmpty(p)
    \/ CallLength(p)
    \/ CallAdd(p)
    \/ CallAddMany(p)
    \/ CallRead(p)
    \/ CallReadMany(p)
    \/ CallPeekNext(p)
    \/ CallPeekLast(p)
    \/ CallCleanup(p)
    \/ Lock(p)
    \/ IsEmpty(p)
    \/ Length(p)
    \/ AddManyBegin(p)
    \/ AddManyStep(p)
    \/ AddManyReturn(p)
    \/ Read(p)
    \/ ReadMany(p)
    \/ PeekNext(p)
    \/ Cleanup(p)

\* any number of goroutines call the queue's methods as time passes
Next == Tick \/ \E p \in Procs : Step(p)

Spec == Init /\ [][Next]_vars

\* the goroutine that runs the test, or the only one
Main == CHOOSE p \in Procs : TRUE

\* ------------------------------------------------------ the test harness
\* TestQueue, "concurrent Add() and Read()": every goroutine adds a value of
\* its own; when all have returned, every goroutine reads one message; when
\* all have returned, one more Read is made.
TestVal == [p \in Procs |-> IF p = "g1" THEN "a" ELSE "b"]

TestAdd(p) ==
    /\ test.stage[p] = "start"
    /\ Invoke(p, [NoOp EXCEPT !.name = "Add", !.vals = <<TestVal[p]>>])
    /\ test' = [test EXCEPT !.stage[p] = "added"]

\* wg.Wait(): no goroutine is still at an earlier stage or inside its call
Waited(earlier) ==
    \A p \in Procs : test.stage[p] \notin earlier /\ (pc[p] # "idle" => test.stage[p] = "reading")

TestRead(p) ==
    /\ test.stage[p] = "added"
    /\ Waited({"start"})
    /\ Invoke(p, [NoOp EXCEPT !.name = "Read", !.limit = 1])
    /\ test' = [test EXCEPT !.stage[p] = "reading"]

TestReadReturn(p) ==
    /\ test.stage[p] = "reading"
    /\ InCS(p, "Read")
    /\ LET r == ReadBody(Q, clock)
       IN  /\ Return(p, r)
           /\ test' = [test EXCEPT !.stage[p] = "read",
                                   !.vals[p] = r.ret.msg.Val,
                                   !.errs[p] = r.ret.err]

TestLastRead(p) ==
    /\ p = Main
    /\ \A g \in Procs : test.stage[g] = "read" /\ pc[g] = "idle"
    /\ Invoke(p, [NoOp EXCEPT !.name = "Read", !.limit = 1])
    /\ test' = [test EXCEPT !.stage[p] = "last"]

TestLastReturn(p) ==
    /\ test.stage[p] = "last"
    /\ InCS(p, "Read")
    /\ LET r == ReadBody(Q, clock)
       IN  /\ Return(p, r)
           /\ test' = [test EXCEPT !.stage[p] = "done", !.last = r.ret.err]

NextTest ==
    \/ Tick
    \/ \E p \in Procs :
        \/ TestAdd(p)
        \/ Lock(p)
        \/ AddManyBegin(p)
        \/ AddManyStep(p)
        \/ AddManyReturn(p)
        \/ TestRead(p)
        \/ TestReadReturn(p)
        \/ TestLastRead(p)
        \/ TestLastReturn(p)

InitTest == InitWith(NewQueue)

SpecTest == InitTest /\ [][NextTest]_vars

\* ------------------------------------------------------- QueueConfig
\* the names and the numbers given to the With methods
Names == {"", "q"}
Params == MinParam..MaxParam

\* a method of QueueConfig, called on the receiver, returns r; the method
\* works on its own copy of the receiver
BuildWith(call, s, n, b, r) ==
    /\ builder' = [recv |-> builder.recv, call |-> call, s |-> s, n |-> n, b |-> b,
                   out |-> r.config, err |-> r.err]
    /\ UNCHANGED <<nodes, head, tail, config, mu, pc, op, idx, appendTime, ret,
                   clock, panicked, added, fifo, delivered, evicted, test>>

CallWithName ==
    \E name \in Names :
        BuildWith("WithName", name, 0, FALSE, WithName(builder.recv, name))

CallWithRetentionCount ==
    \E n \in Params :
        BuildWith("WithRetentionCount", "", n, FALSE, WithRetentionCount(builder.recv, n))

CallWithRetentionTime ==
    \E d \in Params :
        BuildWith("WithRetentionTime", "", d, FALSE, WithRetentionTime(builder.recv, d))

CallWithAutoCleanup ==
    \E b \in BOOLEAN :
        BuildWith("WithAutoCleanup", "", 0, b, WithAutoCleanup(builder.recv, b))

\* the config a call returned is the receiver of the calls that follow
Reuse ==
    /\ builder.out # builder.recv
    /\ builder' = [NoBuild EXCEPT !.recv = builder.out, !.call = "none",
                                  !.out = builder.out]
    /\ UNCHANGED <<nodes, head, tail, config, mu, pc, op, idx, appendTime, ret,
                   clock, panicked, added, fifo, delivered, evicted, test>>

\* q.GetConfig(): the config of the queue, read without the lock
GetConfig ==
    /\ builder' = [NoBuild EXCEPT !.recv = builder.recv, !.call = "GetConfig",
                                  !.out = config]
    /\ UNCHANGED <<nodes, head, tail, config, mu, pc, op, idx, appendTime, ret,
                   clock, panicked, added, fifo, delivered, evicted, test>>

\* q := NewQueueWithConfig(c), for the config c the last call returned
Construct ==
    /\ LET q == NewQueueWithConfig(builder.out)
       IN  /\ nodes' = q.nodes
           /\ head' = q.head
           /\ tail' = q.tail
           /\ config' = q.config
    /\ UNCHANGED <<builder, mu, pc, op, idx, appendTime, ret, clock, panicked,
                   added, fifo, delivered, evicted, test>>

NextConfig ==
    \/ CallWithName
    \/ CallWithRetentionCount
    \/ CallWithRetentionTime
    \/ CallWithAutoCleanup
    \/ Reuse
    \/ GetConfig
    \/ Construct

InitConfig == InitWith(NewQueue)

SpecConfig == InitConfig /\ [][NextConfig]_vars

\* one goroutine calls the queue's methods, one call after the other
NextSeq == Tick \/ Step(Main)

SpecSeq == InitSeq /\ [][NextSeq]_vars

\* ------------------------------------------------- fair scheduling
\* a step goroutine p takes while it holds the lock
Running(p) ==
    \/ IsEmpty(p)
    \/ Length(p)
    \/ AddManyBegin(p)
    \/ AddManyStep(p)
    \/ AddManyReturn(p)
    \/ Read(p)
    \/ ReadMany(p)
    \/ PeekNext(p)
    \/ Cleanup(p)

\* a goroutine that holds the lock keeps running, and sync.Mutex hands the
\* lock to a goroutine that waits for it (its starvation mode)
Fairness == \A p \in Procs : WF_vars(Running(p)) /\ SF_vars(Lock(p))

\* a queue made by a constructor, with the automatic cleanup
InitLive == InitWith(NewQueueWithConfig(LowBothAuto))

\* the goroutines call the queue's methods; no call waits for time to pass
NextLive == \E p \in Procs : Step(p)

SpecLive == InitLive /\ [][NextLive]_vars /\ Fairness

\* ================================================================ claims
\* the queue was made by NewQueue or NewQueueWithConfig
Constructed == tail # Nil

\* this step ends goroutine p's critical section of method `name`
Returns(p, name) ==
    /\ pc[p] \in {"cs", "loop"}
    /\ op[p].name = name
    /\ pc'[p] \notin {"cs", "loop"}

ValsOf(msgs) == [i \in 1..Len(msgs) |-> msgs[i].Val]

\* C1.  FIFO order: when n values were enqueued, by Add or AddMany, into a
\* queue made by a constructor, and none was read or evicted, ReadMany(n)
\* returns no error and the n messages that carry those values, in the order
\* they were enqueued.
C1_FIFOOrder ==
    [][\A p \in Procs :
        (/\ Returns(p, "ReadMany")
         /\ Constructed
         /\ added > 0
         /\ op[p].limit = added
         /\ delivered = {}
         /\ evicted' = {})
        => /\ pc'[p] = "idle"
           /\ ret'.err = ErrNil
           /\ Len(fifo) = added
           /\ ValsOf(ret'.msgs) = fifo]_vars

C1_Witness ==
    /\ ret.op = "ReadMany"
    /\ ret.err = ErrNil
    /\ added = 3
    /\ Cardinality(delivered) = 3
    /\ evicted = {}
    /\ ValsOf(ret.msgs) = <<"a", "b", "a">>

\* C4.  Length accounting: on a queue made by a constructor from which nothing
\* was evicted, Length() returns the number of messages enqueued minus the
\* number of messages read.
C4_LengthAccounting ==
    [][\A p \in Procs :
        (Returns(p, "Length") /\ Constructed /\ evicted' = {})
        => /\ pc'[p] = "idle"
           /\ ret'.n = added - Cardinality(delivered)]_vars

C4_Witness ==
    /\ ret.op = "Length"
    /\ ret.n = 1
    /\ added = 4
    /\ Cardinality(delivered) = 3
    /\ evicted = {}

\* C2.  Concurrent safety: when every goroutine of the test has added its own
\* value and, all Adds returned, every goroutine has read one message, no Read
\* returned an error and the values read are the values added, each once; the
\* Read made after them returns ErrQueueIsEmpty.
C2_ConcurrentSafety ==
    /\ \A p \in Procs :
        test.stage[p] \in {"read", "last", "done"} => test.errs[p] = ErrNil
    /\ (\A p \in Procs : test.stage[p] \in {"read", "last", "done"})
        => \A g \in Procs : Cardinality({p \in Procs : test.vals[p] = TestVal[g]}) = 1
    /\ test.stage[Main] = "done" => test.last = ErrQueueIsEmpty

\* the test ran to its end, and each goroutine read the other's value
C2_Witness ==
    /\ test.stage[Main] = "done"
    /\ test.last = ErrQueueIsEmpty
    /\ \A p \in Procs : test.errs[p] = ErrNil /\ test.vals[p] \notin {"", TestVal[p]}

\* C3.  Consume-once: whatever the interleaving of the goroutines' calls, a
\* message that Read or ReadMany returned is not returned again, neither by
\* Read or ReadMany nor by PeekNext, and no call returns a message twice.
C3_ConsumeOnce ==
    [][\A p \in Procs :
        (pc[p] = "cs" /\ pc'[p] = "idle" /\ ret'.op \in {"Read", "ReadMany", "PeekNext"})
        => /\ \A i \in 1..Len(ret'.ids) : ret'.ids[i] \notin delivered
           /\ \A i, j \in 1..Len(ret'.ids) : ret'.ids[i] = ret'.ids[j] => i = j]_vars

\* both goroutines have read messages, and cleanup evicted one in between
C3_Witness ==
    /\ ret.op = "ReadMany"
    /\ Len(ret.ids) = 2
    /\ Cardinality(delivered) = 3
    /\ evicted # {}
    /\ \E p \in Procs : p # ret.proc /\ op[p].name = "PeekNext" /\ pc[p] = "lock"

\* what IsEmpty() and Length() return when called in the state q is in
IsEmptySays(q, now) == IsEmptyBody(q, now).ret.b
LengthSays(q, now) == LengthBody(q, now).ret.n

\* in this state IsEmpty() is true iff Length() is 0, and is true if nothing
\* was ever added
EmptinessAgrees(q, now, k) ==
    /\ ~IsEmptyBody(q, now).panic
    /\ ~LengthBody(q, now).panic
    /\ IsEmptySays(q, now) <=> LengthSays(q, now) = 0
    /\ k = 0 => IsEmptySays(q, now)

\* the address of the last message the queue holds
LastNode == CHOOSE n \in 1..Len(nodes) : n # tail /\ nodes[n].next = tail

BecomesEmpty == ~isEmptyNoLock(Q) /\ isEmptyNoLock(Q)'

LastMessageRead ==
    /\ \E p \in Procs : Returns(p, "Read") \/ Returns(p, "ReadMany")
    /\ ret'.err = ErrNil
    /\ \E i \in 1..Len(ret'.ids) : ret'.ids[i] = LastNode

LastMessageEvicted == LastNode \in evicted' \ evicted

\* C5.  Emptiness: in every reachable state of a constructor-made queue
\* IsEmpty() is true iff Length() = 0, and a fresh queue is empty; the queue
\* becomes empty exactly in the steps in which its last remaining message is
\* read or is evicted by the cleanup.
C5_Emptiness ==
    [][(Constructed /\ ~panicked')
        => /\ EmptinessAgrees(Q, clock, added)
           /\ EmptinessAgrees(Q', clock', added')
           /\ BecomesEmpty <=> (~isEmptyNoLock(Q) /\ (LastMessageRead \/ LastMessageEvicted))]_vars

\* Cleanup() evicted the two messages a queue held, the last one included
C5_Witness ==
    /\ ret.op = "Cleanup"
    /\ ret.n = 2
    /\ added = 2
    /\ Cardinality(evicted) = 2
    /\ IsEmptySays(Q, clock)
    /\ LengthSays(Q, clock) = 0
    /\ delivered = {}

\* C5 as the specification states it: the queue becomes empty exactly in the
\* steps in which its last remaining message is read.
C5_EmptyOnlyByRead ==
    [][(Constructed /\ ~panicked')
        => /\ EmptinessAgrees(Q, clock, added)
           /\ EmptinessAgrees(Q', clock', added')
           /\ BecomesEmpty <=> (~isEmptyNoLock(Q) /\ LastMessageRead)]_vars

\* C6.  Every exported operation (IsEmpty, Length, Add, AddMany, Read, ReadMany
\* with a positive limit, PeekNext, Cleanup) called on a Queue value no
\* constructor made (tail is nil) returns ErrImproperlyInitializedQueue: it
\* does not panic and returns no other result.
C6_UninitializedError ==
    [][\A p \in Procs :
        (~Constructed /\ pc[p] \in {"cs", "loop"} /\ pc'[p] \notin {"cs", "loop"})
        => /\ pc'[p] = "idle"
           /\ ~panicked'
           /\ ret'.err = ErrImproperlyInitializedQueue]_vars

\* C7.  Read, ReadMany(limit) for every positive limit, and PeekNext, called
\* on an empty constructor-made queue, return ErrQueueIsEmpty and no message;
\* and on no queue do they return a nil error without a message.
C7_EmptyQueueError ==
    [][\A p \in Procs :
        (/\ Constructed
         /\ Returns(p, "Read") \/ Returns(p, "ReadMany") \/ Returns(p, "PeekNext"))
        => /\ pc'[p] = "idle"
           /\ isEmptyNoLock(Q)
               => /\ ret'.err = ErrQueueIsEmpty
                  /\ ret'.msgs = <<>>
                  /\ ret'.msg = ZeroMessage
                  /\ ret'.ids = <<>>
                  /\ delivered' = delivered
           /\ ret'.err = ErrNil => Len(ret'.ids) >= 1]_vars

\* ReadMany(MaxLimit) found the queue empty after its messages had been read
C7_Witness ==
    /\ ret.op = "ReadMany"
    /\ ret.limit = MaxLimit
    /\ ret.err = ErrQueueIsEmpty
    /\ added > 0
    /\ Cardinality(delivered) = added
    /\ head = tail

\* C8.  ReadMany(limit) with limit <= 0 returns ErrInvalidLimit and an empty
\* result, and leaves the queue as it was, whether it holds messages or not.
C8_InvalidLimit ==
    [][(ret'.op = "ReadMany" /\ ret'.limit <= 0)
        => /\ ret'.err = ErrInvalidLimit
           /\ ret'.msgs = <<>>
           /\ UNCHANGED <<nodes, head, tail, mu, delivered, evicted, fifo>>]_vars

\* ReadMany(0) returned from a queue that holds two messages
C8_Witness ==
    /\ ret.op = "ReadMany"
    /\ ret.limit = 0
    /\ ret.err = ErrInvalidLimit
    /\ Constructed
    /\ lengthNoLock(Q) = 2
    /\ Len(fifo) = 2

\* what PeekNext leaves and returns when it does not advance head
PeekNextKeepsHead(p) ==
    /\ pc'[p] = "idle"
    /\ ret'.err = ErrNil
    /\ ret'.msg = nodes[head].message
    /\ head' = head
    /\ nodes' = nodes
    /\ lengthNoLock(Q') = lengthNoLock(Q)
    /\ delivered' = delivered
    /\ PeekNextBody(Q', clock').ret.msg = ret'.msg
    /\ ReadBody(Q', clock').ret.msg = ret'.msg

\* C9.  With autoCleanup disabled, PeekNext on a non-empty queue returns a copy
\* of the message at head and does not advance head: the PeekNext calls that
\* follow return the same message, Length is unchanged, and the next Read
\* returns that same message.  With autoCleanup enabled, PeekNext first runs
\* the cleanup, which may advance head; the message it then returns is the one
\* at the new head, which it does not consume.
C9_PeekNextFrame ==
    [][\A p \in Procs :
        (Returns(p, "PeekNext") /\ Constructed)
        => /\ (~config.autoCleanup /\ ~isEmptyNoLock(Q)) => PeekNextKeepsHead(p)
           /\ (pc'[p] = "idle" /\ ret'.err = ErrNil)
               => /\ ret'.msg = nodes'[head'].message
                  /\ ret'.ids = <<head'>>
                  /\ delivered' = delivered
                  /\ PeekNextBody(Q', clock').ret.msg = ret'.msg
                  /\ ReadBody(Q', clock').ret.msg = ret'.msg]_vars

\* PeekNext returned the second message added, after the first was read
C9_Witness ==
    /\ ret.op = "PeekNext"
    /\ ret.err = ErrNil
    /\ ~config.autoCleanup
    /\ Cardinality(delivered) = 1
    /\ evicted = {}
    /\ ret.msg.Offset = 1
    /\ lengthNoLock(Q) = 2

\* C9 as the specification states it, whatever the config
C9_PeekNextNeverAdvances ==
    [][\A p \in Procs :
        (Returns(p, "PeekNext") /\ Constructed /\ ~isEmptyNoLock(Q))
        => PeekNextKeepsHead(p)]_vars

RECURSIVE ListVals(_, _, _)
\* the values held from node `from` up to, not including, node `to`
ListVals(ns, from, to) ==
    IF from = to \/ from = Nil THEN <<>>
    ELSE <<ns[from].message.Val>> \o ListVals(ns, ns[from].next, to)

\* ReadMany returns the first min(limit, Length) messages of the queue q, in
\* order, and leaves the others
ReadManyTakes(p, q) ==
    LET k == Min(op[p].limit, lengthNoLock(q))
    IN  /\ pc'[p] = "idle"
        /\ ret'.err = ErrNil
        /\ Len(ret'.msgs) = k
        /\ k >= 1
        /\ head' = Advance(nodes, q.head, k)
        /\ tail' = tail
        /\ lengthNoLock(Q') = lengthNoLock(q) - k
        /\ ListVals(nodes, q.head, tail) = ValsOf(ret'.msgs) \o ListVals(nodes', head', tail')
        /\ \A i \in 1..k : ret'.msgs[i] = nodes[Advance(nodes, q.head, i - 1)].message

\* the queue as the automatic cleanup leaves it, if the config enables it
Cleaned == [Q EXCEPT !.head = autoCleanup(Q, clock).head]

\* C10.  ReadMany(limit) with limit > 0 on a queue that is non-empty once the
\* automatic cleanup, if enabled, has run returns exactly min(limit, Length)
\* messages with a nil error, Length being taken after that cleanup; it
\* advances head by exactly that many and leaves the remaining messages in
\* order; asking for more than is available is not an error.
C10_ReadManyClamps ==
    [][\A p \in Procs :
        (Returns(p, "ReadMany") /\ Constructed /\ ~isEmptyNoLock(Cleaned))
        => ReadManyTakes(p, Cleaned)]_vars

\* ReadMany(3) returned the two messages left after the cleanup evicted one
C10_Witness ==
    /\ ret.op = "ReadMany"
    /\ ret.limit = 3
    /\ ret.err = ErrNil
    /\ Len(ret.msgs) = 2
    /\ config.autoCleanup
    /\ evicted # {}
    /\ head = tail

\* C10 as the specification states it: non-empty and Length as the queue is
\* when ReadMany is called
C10_ReadManyClampsAtCall ==
    [][\A p \in Procs :
        (Returns(p, "ReadMany") /\ Constructed /\ ~isEmptyNoLock(Q))
        => ReadManyTakes(p, Q)]_vars

RECURSIVE Chain(_, _, _)
\* the addresses from node `from` up to, not including, node `to`, in order
Chain(ns, from, to) ==
    IF from = to \/ from = Nil THEN <<>>
    ELSE <<from>> \o Chain(ns, ns[from].next, to)

\* C11.  Offset assignment: the first message enqueued into a queue gets
\* offset 0 and each later message the previous offset + 1 in the arithmetic
\* of the offset type, whatever was read or evicted in between; hence the
\* tail offset is the number of messages ever enqueued, by any number of
\* goroutines, as long as that number is representable.
C11_OffsetAssignment ==
    Constructed
    => LET ids == Chain(nodes, head, tail)
       IN  /\ nodes[tail].message.Offset = Wrap(added)
           /\ added <= MaxOffset => nodes[tail].message.Offset = added
           /\ \A i \in 1..Len(ids) :
                nodes[ids[i]].message.Offset = Wrap(added - Len(ids) + i - 1)
           /\ \A i \in 1..Len(ret.msgs) :
                ret.msgs[i].Offset = Wrap(ret.msgs[1].Offset + i - 1)

\* three messages were enqueued, one was evicted and one read in between
C11_Witness ==
    /\ Constructed
    /\ added = 3
    /\ nodes[tail].message.Offset = 3
    /\ delivered # {}
    /\ evicted # {}
    /\ head # tail
    /\ \A p \in Procs : pc[p] = "idle"

\* an iteration of AddMany's loop: a message is written, a new tail is linked
Appends == tail' # tail

\* C12.  Wraparound: a queue whose head and tail offsets are (max-1, max) of
\* the offset type holds one message, Length() = 1 and IsEmpty() = false; the
\* Add that follows the offset max makes the tail offset 0 and the one after
\* it 1; Length() is the number of messages held on both sides of the boundary.
C12_WrapsToZero ==
    [][Constructed
        => /\ (/\ nodes[head].message.Offset = MaxOffset - 1
               /\ nodes[tail].message.Offset = MaxOffset)
               => lengthNoLock(Q) = 1 /\ ~isEmptyNoLock(Q)
           /\ (Appends /\ nodes[tail].message.Offset = MaxOffset)
               => nodes'[tail'].message.Offset = 0
           /\ (Appends /\ nodes[tail].message.Offset = 0)
               => nodes'[tail'].message.Offset = 1
           /\ lengthNoLock(Q') = Len(Chain(nodes', head', tail'))]_vars

\* C12 without the offset that follows max: what holds across the boundary
C12_LengthAcrossBoundary ==
    [][Constructed
        => /\ (/\ nodes[head].message.Offset = MaxOffset - 1
               /\ nodes[tail].message.Offset = MaxOffset)
               => lengthNoLock(Q) = 1 /\ ~isEmptyNoLock(Q)
           /\ (Appends /\ nodes[tail].message.Offset = MaxOffset)
               => nodes'[tail'].message.Offset = MinOffset
           /\ lengthNoLock(Q') = Len(Chain(nodes', head', tail'))]_vars

\* the age cleanup measures for the message at address n
Age(n) == Sub(clock, nodes[n].message.LogAppendTime)

\* no message the queue holds is older than retentionTime
NoneExpired ==
    \A n \in Between(nodes, head, tail) : Age(n) <= config.retentionTime

\* the last k elements of the sequence s
Last(s, k) == SubSeq(s, Len(s) - k + 1, Len(s))

\* C13.  Retention by count: Cleanup() on a queue of n messages, none expired
\* by age, with retentionCount = c removes exactly max(0, n - c) messages, all
\* from the head, returns that number, and leaves the c newest messages (all
\* of them when n <= c) in order.
C13_RetentionByCount ==
    [][\A p \in Procs :
        (Returns(p, "Cleanup") /\ Constructed /\ NoneExpired)
        => LET held == Chain(nodes, head, tail)
               n == Len(held)
               k == Max(0, n - config.retentionCount)
           IN  /\ pc'[p] = "idle"
               /\ ret'.n = k
               /\ evicted' \ evicted = {held[i] : i \in 1..k}
               /\ delivered' = delivered
               /\ Chain(nodes', head', tail') = Last(held, n - k)
               /\ ListVals(nodes', head', tail')
                    = Last(ListVals(nodes, head, tail), Min(n, config.retentionCount))
               /\ lengthNoLock(Q') = Min(n, config.retentionCount)]_vars

\* retentionCount = 1: Cleanup() removed a from [a, b] and b is next to be read
C13_Witness ==
    /\ ret.op = "Cleanup"
    /\ ret.n = 1
    /\ config.retentionCount = 1
    /\ added = 2
    /\ clock = 0
    /\ Cardinality(evicted) = 1
    /\ delivered = {}
    /\ ListVals(nodes, head, tail) = <<"b">>
    /\ ReadBody(Q, clock).ret.msg.Val = "b"

\* what the claim of retention by age says of a return of Cleanup()
AgedOut(p) ==
    /\ pc'[p] = "idle"
    /\ \A n \in Between(nodes', head', tail') :
        Sub(clock, nodes'[n].message.LogAppendTime) <= config.retentionTime
    /\ (\A n \in Between(nodes, head, tail) : Age(n) > config.retentionTime)
        => /\ head' = tail'
           /\ isEmptyNoLock(Q')
           /\ ret'.n = Len(Chain(nodes, head, tail))

\* C14.  Retention by age: after Cleanup() returns, no message remaining in
\* the queue has an age (clock at cleanup minus its append time) greater than
\* retentionTime; if every message is older than retentionTime, Cleanup
\* removes them all and the queue is empty.
C14_RetentionByAge ==
    [][\A p \in Procs : (Returns(p, "Cleanup") /\ Constructed) => AgedOut(p)]_vars

\* C14 for the queues whose tail offset has not passed the largest offset
C14_RetentionByAgeBeforeWrap ==
    [][\A p \in Procs :
        (Returns(p, "Cleanup") /\ Constructed /\ nodes[tail].message.Offset >= 0)
        => AgedOut(p)]_vars

\* C15.  Auto-cleanup: with autoCleanup = true and retentionCount = c, when an
\* Add or AddMany call has returned the queue holds at most c messages, the
\* most recently enqueued ones, with no call of Cleanup(): exactly the c
\* newest, or all if there are fewer, when none is expired by age.
C15_AutoCleanup ==
    [][\A p \in Procs :
        (/\ Returns(p, "Add") \/ Returns(p, "AddMany")
         /\ Constructed
         /\ config.autoCleanup)
        => LET held == ListVals(nodes, head, tail)
               kept == ListVals(nodes', head', tail')
           IN  /\ pc'[p] = "idle"
               /\ ret'.err = ErrNil
               /\ Len(kept) <= config.retentionCount
               /\ lengthNoLock(Q') = Len(kept)
               /\ kept = Last(held, Len(kept))
               /\ Chain(nodes', head', tail') = Last(Chain(nodes, head, tail), Len(kept))
               /\ NoneExpired => Len(kept) = Min(Len(held), config.retentionCount)]_vars

\* retentionCount = 2: AddMany returned, of a, b, a the last two are held and
\* Read returns b
C15_Witness ==
    /\ ret.op = "AddMany"
    /\ ret.err = ErrNil
    /\ config.autoCleanup
    /\ config.retentionCount = 2
    /\ added = 3
    /\ clock = 0
    /\ Cardinality(evicted) = 1
    /\ delivered = {}
    /\ ListVals(nodes, head, tail) = <<"b", "a">>
    /\ ReadBody(Q, clock).ret.msg.Val = "b"

\* C16.  With autoCleanup disabled no operation other than Cleanup() evicts
\* messages: head moves only when Read, ReadMany or Cleanup returns, and only
\* Cleanup moves it past messages that were not read; every message Add or
\* AddMany appends makes the queue one longer, beyond retentionCount too, and
\* the return of Cleanup() brings the length back to at most retentionCount.
C16_NoImplicitEviction ==
    [][(Constructed /\ ~config.autoCleanup)
        => /\ evicted' # evicted => \E p \in Procs : Returns(p, "Cleanup")
           /\ head' # head
               => \E p \in Procs :
                    Returns(p, "Cleanup") \/ Returns(p, "Read") \/ Returns(p, "ReadMany")
           /\ Appends => lengthNoLock(Q') = lengthNoLock(Q) + 1 /\ head' = head
           /\ \A p \in Procs :
                /\ (Returns(p, "Add") \/ Returns(p, "AddMany"))
                    => /\ head' = head
                       /\ lengthNoLock(Q') = lengthNoLock(Q)
                       /\ ListVals(nodes', head', tail') = fifo
                /\ (Returns(p, "IsEmpty") \/ Returns(p, "Length") \/ Returns(p, "PeekNext"))
                    => head' = head /\ tail' = tail
                /\ Returns(p, "Cleanup")
                    => lengthNoLock(Q') <= config.retentionCount]_vars

\* retentionCount = 1, autoCleanup off: AddMany returned and the queue holds 3
C16_Witness ==
    /\ ret.op = "AddMany"
    /\ ~config.autoCleanup
    /\ config.retentionCount = 1
    /\ lengthNoLock(Q) = 3
    /\ LengthSays(Q, clock) = 3
    /\ evicted = {}
    /\ delivered = {}

\* a method of QueueConfig has just returned
Built(call) == builder' # builder /\ builder'.call = call

Positive(c) == c.retentionCount > 0 /\ c.retentionTime > 0

\* C17.  WithRetentionCount(n) with n <= 0 and WithRetentionTime(d) with
\* d <= 0 return ErrInvalidConfig and a config equal to the receiver in every
\* field; with positive arguments they return a nil error and the config with
\* the number set.  Every config built from DefaultConfig() through the With
\* methods, and the config of every queue built from one, has
\* retentionCount > 0 and retentionTime > 0.
C17_ConfigValidation ==
    [][/\ Built("WithRetentionCount")
           => IF builder'.n <= 0
              THEN builder'.err = ErrInvalidConfig /\ builder'.out = builder.recv
              ELSE /\ builder'.err = ErrNil
                   /\ builder'.out = [builder.recv EXCEPT !.retentionCount = builder'.n]
       /\ Built("WithRetentionTime")
           => IF builder'.n <= 0
              THEN builder'.err = ErrInvalidConfig /\ builder'.out = builder.recv
              ELSE /\ builder'.err = ErrNil
                   /\ builder'.out = [builder.recv EXCEPT !.retentionTime = builder'.n]
       /\ Positive(builder.recv) /\ Positive(builder.out) /\ Positive(config)
       /\ Positive(builder'.recv) /\ Positive(builder'.out) /\ Positive(config')]_vars

\* WithRetentionCount(0) was refused on a config that is not the default one
C17_Witness ==
    /\ builder.call = "WithRetentionCount"
    /\ builder.n = 0
    /\ builder.err = ErrInvalidConfig
    /\ builder.recv = [name |-> "q", retentionCount |-> 2, retentionTime |-> 1,
                       autoCleanup |-> TRUE]
    /\ builder.out = builder.recv

\* the fields of QueueConfig
Fields == {"name", "retentionCount", "retentionTime", "autoCleanup"}

\* the config `out` differs from `in` at most in field f
OnlyField(in, out, f) == \A g \in Fields \ {f} : out[g] = in[g]

\* C18.  Config is copy-on-write: each of WithName, WithRetentionCount,
\* WithRetentionTime and WithAutoCleanup returns a config that differs from
\* the receiver only in the named field, which holds the argument when no
\* error is returned; the receiver and the config of the queue built before
\* the call are left as they were.
C18_CopyOnWrite ==
    [][/\ Built("WithName")
           => /\ OnlyField(builder.recv, builder'.out, "name")
              /\ builder'.out.name = builder'.s
       /\ Built("WithRetentionCount")
           => /\ OnlyField(builder.recv, builder'.out, "retentionCount")
              /\ builder'.err = ErrNil => builder'.out.retentionCount = builder'.n
       /\ Built("WithRetentionTime")
           => /\ OnlyField(builder.recv, builder'.out, "retentionTime")
              /\ builder'.err = ErrNil => builder'.out.retentionTime = builder'.n
       /\ Built("WithAutoCleanup")
           => /\ OnlyField(builder.recv, builder'.out, "autoCleanup")
              /\ builder'.out.autoCleanup = builder'.b
       /\ (\E call \in {"WithName", "WithRetentionCount", "WithRetentionTime",
                         "WithAutoCleanup"} : Built(call))
           => /\ builder'.recv = builder.recv
              /\ config' = config]_vars

\* WithAutoCleanup(true) returned a new config; its receiver, from which a
\* queue was built before, and that queue's config still have autoCleanup off
C18_Witness ==
    /\ builder.call = "WithAutoCleanup"
    /\ builder.b
    /\ builder.recv = [name |-> "q", retentionCount |-> 1, retentionTime |-> 2,
                       autoCleanup |-> FALSE]
    /\ builder.out = [builder.recv EXCEPT !.autoCleanup = TRUE]
    /\ config = builder.recv

\* C19.  PeekLast returns ErrUnimplementedMethod and a zero Message whatever
\* the queue is (empty, non-empty, uninitialized, locked by another
\* goroutine), and changes nothing.
C19_PeekLastUnimplemented ==
    [][ret'.op = "PeekLast"
        => /\ ret'.err = ErrUnimplementedMethod
           /\ ret'.msg = ZeroMessage
           /\ ret'.msgs = <<>>
           /\ UNCHANGED <<nodes, head, tail, config, mu, pc, clock, panicked,
                          added, fifo, delivered, evicted>>]_vars

\* PeekLast returned while the queue held two messages and another goroutine
\* was in AddMany's loop with the lock
C19_Witness ==
    /\ ret.op = "PeekLast"
    /\ ret.err = ErrUnimplementedMethod
    /\ Constructed
    /\ lengthNoLock(Q) = 2
    /\ mu
    /\ \E p \in Procs : pc[p] = "loop" /\ p # ret.proc

\* the goroutines inside a critical section
Inside == {p \in Procs : pc[p] \in {"cs", "loop"}}

\* C20.  Lock discipline: at most one goroutine is inside a critical section
\* at any time, the mutex is held exactly while one is, and it is released on
\* every exit path, early error returns and panics included, so it is free
\* whenever no operation is in progress; the queue's nodes, head and tail
\* change only in the steps of the goroutine that holds the mutex.
C20_LockDiscipline ==
    [][/\ Cardinality(Inside) <= 1
       /\ Cardinality(Inside') <= 1
       /\ mu <=> Inside # {}
       /\ mu' <=> Inside' # {}
       /\ (\A p \in Procs : pc'[p] \in {"idle", "panic"}) => ~mu'
       /\ <<nodes, head, tail>>' # <<nodes, head, tail>> => mu /\ Inside # {}
       /\ \A p \in Procs :
            (p \in Inside /\ p \notin Inside') => ~mu' /\ pc'[p] \in {"idle", "panic"}]_vars

\* Add returned ErrImproperlyInitializedQueue and released the mutex, for
\* which the other goroutine waits
C20_Witness ==
    /\ ret.op = "Add"
    /\ ret.err = ErrImproperlyInitializedQueue
    /\ ~mu
    /\ Inside = {}
    /\ \E p \in Procs : pc[p] = "lock" /\ p # ret.proc

\* the methods that report what the queue holds
Observers == {"IsEmpty", "Length", "Read", "ReadMany", "PeekNext", "Cleanup"}

\* goroutine p takes a step of the call it is in
Moves(p) == pc'[p] # pc[p] \/ idx'[p] # idx[p]

\* C21.  Batch atomicity: when calls of AddMany run concurrently, the values
\* of each batch occupy consecutive offsets in batch order at the end of the
\* queue when the call returns; while a batch is partially applied the queue
\* changes only by the steps of that call, and no Read, ReadMany, PeekNext,
\* Length, IsEmpty or Cleanup returns.
C21_BatchAtomicity ==
    [][\A p \in Procs :
        /\ (Constructed /\ (Returns(p, "Add") \/ Returns(p, "AddMany")))
            => LET k == Len(op[p].vals)
                   ids == Chain(nodes, head, tail)
                   n == Len(ids)
               IN  /\ n >= k
                   /\ Last(ListVals(nodes, head, tail), k) = op[p].vals
                   /\ \A i \in 1..k :
                        nodes[ids[n - k + i]].message.Offset
                            = Wrap(nodes[tail].message.Offset - k + i - 1)
        /\ pc[p] = "loop"
            => /\ <<nodes, head, tail>>' # <<nodes, head, tail>> => Moves(p)
               /\ \A q \in Procs \ {p} :
                    /\ pc[q] \notin {"cs", "loop"}
                    /\ \A name \in Observers : ~Returns(q, name)
                    /\ ret'.proc # q \/ ret'.op \in {"PeekLast", "ReadMany"}]_vars

\* one value of a batch of two is written and the other goroutine waits for
\* the lock with a batch of its own
C21_Witness ==
    /\ Constructed
    /\ \E p, q \in Procs :
        /\ p # q
        /\ pc[p] = "loop"
        /\ op[p].name = "AddMany"
        /\ Len(op[p].vals) = 2
        /\ idx[p] = 2
        /\ pc[q] = "lock"
        /\ op[q].name = "AddMany"
        /\ Len(op[q].vals) = 1
    /\ added = 2

\* the goroutine in AddMany's loop, if there is one
Looping == {p \in Procs : pc[p] = "loop"}

\* the queue without the values the call of p has written so far: the state
\* the queue was in when p took the lock
Unapplied(p) ==
    LET k == idx[p] - 1
        t0 == tail - k
    IN  [nodes |-> [i \in 1..(Len(nodes) - k) |->
                      IF i = t0 THEN NewNode(nodes[t0].message.Offset) ELSE nodes[i]],
         head |-> head, tail |-> t0, config |-> config]

\* the queue as the calls that have taken effect left it
Abs == IF Looping = {} THEN Q ELSE Unapplied(CHOOSE p \in Looping : TRUE)

RECURSIVE AddAll(_, _, _, _)
\* AddMany's loop, from its i-th value on
AddAll(q, vals, i, t) ==
    IF i > Len(vals) THEN q ELSE AddAll(AddOne(q, vals[i], t), vals, i + 1, t)

\* AddMany run from its lock to its return with no other step in between
SeqAddMany(q, name, vals, t, now) ==
    IF q.tail = Nil
    THEN Done(q, [NoRet EXCEPT !.op = name, !.err = ErrImproperlyInitializedQueue])
    ELSE AddManyEnd(AddAll(q, vals, 1, t), name, now)

\* the call goroutine p is in, run on the queue q with no other step in between
SeqOp(p, q, now) ==
    CASE op[p].name = "IsEmpty" -> IsEmptyBody(q, now)
      [] op[p].name = "Length" -> LengthBody(q, now)
      [] op[p].name \in {"Add", "AddMany"} ->
            SeqAddMany(q, op[p].name, op[p].vals,
                       IF pc[p] = "loop" THEN appendTime[p] ELSE now, now)
      [] op[p].name = "Read" -> ReadBody(q, now)
      [] op[p].name = "ReadMany" -> ReadManyBody(q, op[p].limit, now)
      [] op[p].name = "PeekNext" -> PeekNextBody(q, now)
      [] op[p].name = "Cleanup" -> CleanupBody(q, now)

\* goroutine p returns from its critical section
Responds(p) == pc[p] \in {"cs", "loop"} /\ pc'[p] \notin {"cs", "loop"}

\* the offsets along the chain follow one another, modulo the offset width
OffsetsFollow ==
    LET ids == Chain(nodes, head, tail)
    IN  \A i, j \in 1..Len(ids) :
          i < j => nodes[ids[j]].message.Offset
                      = Wrap(nodes[ids[i]].message.Offset + (j - i))

\* of two messages in the queue the one added first has the lower offset,
\* as long as the offsets in the queue do not straddle the wrap
LowerOffsetFirst ==
    LET ids == Chain(nodes, head, tail)
    IN  nodes[head].message.Offset <= nodes[tail].message.Offset
        => \A i, j \in 1..Len(ids) :
             i < j => nodes[ids[i]].message.Offset < nodes[ids[j]].message.Offset

\* C22.  Linearizability: every call that takes the lock takes effect in one
\* step between its invocation and its return, the step in which it returns:
\* there the queue goes from what the calls before it left to what the call,
\* run alone, makes of it, and the call returns what it returns when run
\* alone; no other step changes the queue.  In particular a message is
\* appended behind every message of the calls that returned before, gets the
\* offset that follows theirs modulo the offset width (a higher offset unless
\* the offsets wrap in between), and is read after them.
C22_Linearizable ==
    [][/\ (\A p \in Procs : ~Responds(p)) => Abs' = Abs
       /\ \A p \in Procs :
            Responds(p)
            => LET r == SeqOp(p, Abs, clock)
               IN  /\ ret' = [r.ret EXCEPT !.proc = p]
                   /\ panicked' = r.panic
                   /\ Abs' = [r.q EXCEPT !.nodes = Collect(r.q.nodes, r.q.head, r.q.tail)]
                   /\ Abs' = Q'
       /\ Appends => Chain(nodes', head', tail') = Chain(nodes, head, tail) \o <<tail>>
       /\ Constructed => OffsetsFollow /\ LowerOffsetFirst
       /\ \A p \in Procs :
            (Constructed /\ (Returns(p, "Read") \/ Returns(p, "ReadMany")))
            => ret'.ids = SubSeq(Chain(nodes, Cleaned.head, tail), 1, Len(ret'.ids))]_vars

\* AddMany of two values returned after the other goroutine, which called
\* Read while the first value only was written, had waited for the lock
C22_Witness ==
    /\ Constructed
    /\ ret.op = "AddMany"
    /\ ret.err = ErrNil
    /\ added = 3
    /\ \E q \in Procs : q # ret.proc /\ pc[q] = "lock" /\ op[q].name = "Read"
    /\ Looping = {}
    /\ Len(Chain(nodes, head, tail)) = 3

\* the errors the package declares, and nil
Errors ==
    {ErrNil, ErrImproperlyInitializedQueue, ErrQueueIsEmpty, ErrInvalidLimit,
     ErrUnimplementedMethod, ErrInvalidConfig}

\* C23.  No panic: on a queue made by a constructor no call panics, whatever
\* the calls, their interleaving and the config: head never passes tail (tail
\* is reached from head by next pointers, none of them nil on the way), and
\* every failure is an error value the call returns.
C23_NoPanic ==
    Constructed
    => /\ ~panicked
       /\ \A p \in Procs : pc[p] # "panic"
       /\ head # Nil
       /\ tail \in Reach(nodes, head)
       /\ \A n \in Between(nodes, head, tail) : nodes[n].next # Nil
       /\ ret.err \in Errors \ {ErrImproperlyInitializedQueue}

\* ReadMany was asked for more messages than the queue held and stopped at tail
C23_Witness ==
    /\ Constructed
    /\ ret.op = "ReadMany"
    /\ ret.err = ErrNil
    /\ ret.limit = MaxLimit
    /\ Len(ret.msgs) < MaxLimit
    /\ head = tail
    /\ \E p \in Procs : pc[p] = "lock"

\* C24.  Structural invariant: in every state of a queue made by a
\* constructor the chain from head leads to tail and visits no node twice,
\* the number of its links is tail.offset - head.offset modulo the offset
\* width, each node's offset is its predecessor's + 1, and tail.next is nil.
C24_Structure ==
    Constructed
    => LET ids == Chain(nodes, head, tail)
       IN  /\ tail \in Reach(nodes, head)
           /\ Cardinality({ids[i] : i \in 1..Len(ids)}) = Len(ids)
           /\ tail \notin {ids[i] : i \in 1..Len(ids)}
           /\ Len(ids) = lengthNoLock(Q)
           /\ \A i \in 1..Len(ids) :
                nodes[nodes[ids[i]].next].message.Offset
                    = Wrap(nodes[ids[i]].message.Offset + 1)
           /\ nodes[tail].next = Nil

\* a chain of three links whose offsets straddle the wrap, one message read
C24_Witness ==
    /\ Constructed
    /\ Len(Chain(nodes, head, tail)) = 3
    /\ nodes[tail].message.Offset < nodes[head].message.Offset
    /\ delivered # {}

\* the calls that change the queue by cleanup only
CleanupOnly == {"IsEmpty", "Length", "PeekNext", "Cleanup", "Add", "AddMany"}

\* the step moves head forward from the node h, leaves tail and its offset,
\* and leaves every message that remains as it was
HeadForward(h) ==
    /\ head' \in Reach(nodes, h)
    /\ tail' = tail
    /\ nodes'[tail'] = nodes[tail]
    /\ \A n \in Reach(nodes', head') : nodes'[n] = nodes[n]

\* C25.  Cleanup frame: cleanup, called by Cleanup or run automatically by
\* another call, only moves head forward along the chain, never backward; it
\* changes neither tail nor the tail offset nor the value, offset or append
\* time of a message that remains in the queue.
C25_CleanupFrame ==
    [][Constructed
       => /\ cleanup(Q, clock).head \in Reach(nodes, head)
          /\ \A p \in Procs :
               /\ (\E name \in CleanupOnly : Returns(p, name))
                    => /\ HeadForward(head)
                       /\ head' \in {head, cleanup(Q, clock).head}
               /\ (Returns(p, "Read") \/ Returns(p, "ReadMany"))
                    => /\ HeadForward(Cleaned.head)
                       /\ Cleaned.head \in Reach(nodes, head)]_vars

\* Cleanup evicted the one expired message of three and left the other two
C25_Witness ==
    /\ Constructed
    /\ ret.op = "Cleanup"
    /\ ret.n = 1
    /\ ~config.autoCleanup
    /\ config.retentionTime = 1
    /\ Len(Chain(nodes, head, tail)) = 2
    /\ Cardinality(evicted) = 1

\* the offsets of the queue straddle the wrap: the head offset is numerically
\* greater than the tail offset
Straddles == nodes[head].message.Offset > nodes[tail].message.Offset

\* the messages of the queue that are older than retentionTime
ExpiredNow == {n \in Between(nodes, head, tail) : Age(n) > config.retentionTime}

\* C26.  Age pass across the wraparound: when the offsets of the queue
\* straddle the wrap, Cleanup() still evicts every message older than
\* retentionTime and counts it in the number it returns.
C26_AgePassAcrossWrap ==
    [][\A p \in Procs :
        (Returns(p, "Cleanup") /\ Constructed /\ Straddles)
        => /\ pc'[p] = "idle"
           /\ ExpiredNow \cap Between(nodes', head', tail') = {}
           /\ ret'.n >= Cardinality(ExpiredNow)
           /\ ret'.n = Cardinality(Between(nodes, head, tail)
                                      \ Between(nodes', head', tail'))]_vars

\* C27.  Initialization check before the lock: a call on a queue whose tail
\* is nil returns ErrImproperlyInitializedQueue before it locks the mutex, so
\* on such a queue the mutex is never locked and no call is past Lock.
C27_CheckBeforeLock ==
    ~Constructed
    => /\ ~mu
       /\ \A p \in Procs : pc[p] \notin {"cs", "loop", "panic"}
       /\ ret.op # "none" => ret.err \in {ErrImproperlyInitializedQueue,
                                          ErrInvalidLimit, ErrUnimplementedMethod}

\* the message was appended no longer than retentionTime ago
Fresh(m) == Sub(clock, m.LogAppendTime) <= config.retentionTime

\* what a query that returns says, against the messages that are fresh
QueriesFresh(p) ==
    LET fresh == {n \in Between(nodes, head, tail) : Fresh(nodes[n].message)}
    IN  /\ Returns(p, "IsEmpty") => (ret'.b <=> fresh = {})
        /\ Returns(p, "Length")
             => ret'.n <= Min(Cardinality(fresh), config.retentionCount)
        /\ (Returns(p, "Read") \/ Returns(p, "PeekNext"))
             => (ret'.err = ErrNil => Fresh(ret'.msg))
        /\ Returns(p, "ReadMany")
             => /\ \A i \in 1..Len(ret'.msgs) : Fresh(ret'.msgs[i])
                /\ Len(ret'.msgs) <= config.retentionCount

\* C28.  Automatic cleanup before the queries: with autoCleanup enabled
\* IsEmpty, Length, Read, ReadMany and PeekNext never return or count a
\* message older than retentionTime at the time of the call, nor more than
\* retentionCount messages.
C28_CleanBeforeQuery ==
    [][\A p \in Procs : (Constructed /\ config.autoCleanup) => QueriesFresh(p)]_vars

\* C28 for the queues whose tail offset has not passed the largest offset
C28_CleanBeforeQueryBeforeWrap ==
    [][\A p \in Procs :
        (Constructed /\ config.autoCleanup /\ nodes[tail].message.Offset >= 0)
        => QueriesFresh(p)]_vars

\* C28 of the count alone: with autoCleanup enabled the queries never return
\* or count more than retentionCount messages
C28_CountBeforeQuery ==
    [][\A p \in Procs :
        (Constructed /\ config.autoCleanup)
        => /\ Returns(p, "Length") => ret'.n <= config.retentionCount
           /\ Returns(p, "IsEmpty")
                => (ret'.b <=> Between(nodes', head', tail') = {})
           /\ Returns(p, "ReadMany") => Len(ret'.msgs) <= config.retentionCount
           /\ (\E name \in {"IsEmpty", "Length", "Read", "ReadMany", "PeekNext"} :
                   Returns(p, name))
                => Len(Chain(nodes', head', tail')) <= config.retentionCount]_vars

\* C29.  Termination and no self-deadlock: under fair scheduling of the lock
\* every call on a queue made by a constructor returns; a call that holds the
\* lock runs the cleanup without locking again, so it never goes back to wait
\* for the mutex it holds.
C29_Termination ==
    /\ \A p \in Procs : (pc[p] \in {"lock", "cs", "loop"}) ~> (pc[p] = "idle")
    /\ [][\A p \in Procs :
            pc[p] \in {"cs", "loop"} => mu /\ pc'[p] \in {"cs", "loop", "idle"}]_vars

\* a goroutine waits for the lock while the other, with autoCleanup enabled,
\* has written its batch and is about to run the cleanup and return
C29_Witness ==
    /\ Constructed
    /\ config.autoCleanup
    /\ mu
    /\ \E p, q \in Procs :
        /\ pc[p] = "loop" /\ idx[p] > Len(op[p].vals) /\ Len(op[p].vals) = 2
        /\ pc[q] = "lock" /\ op[q].name = "Length"

\* C30.  AddMany is all-or-nothing: on a queue made by a constructor it never
\* stops halfway; it returns nil with the whole batch appended behind the
\* messages the queue held (with autoCleanup off Length has grown by exactly
\* len(vals) and the newest len(vals) messages are vals in order); on a queue
\* whose tail is nil it returns ErrImproperlyInitializedQueue and appends
\* nothing.
C30_AllOrNothing ==
    [][\A p \in Procs :
        /\ pc[p] = "loop" => pc'[p] \in {"loop", "idle"}
        /\ (Returns(p, "Add") \/ Returns(p, "AddMany"))
            => LET k == Len(op[p].vals)
                   held == ListVals(nodes, head, tail)
                   kept == ListVals(nodes', head', tail')
               IN  IF Constructed
                   THEN /\ pc'[p] = "idle"
                        /\ ret'.err = ErrNil
                        /\ Len(held) = lengthNoLock(Abs) + k
                        /\ Len(held) >= k
                        /\ Last(held, k) = op[p].vals
                        /\ SubSeq(held, 1, Len(held) - k)
                               = ListVals(Abs.nodes, Abs.head, Abs.tail)
                        /\ ~config.autoCleanup
                             => /\ lengthNoLock(Q') = lengthNoLock(Abs) + k
                                /\ kept = held
                   ELSE /\ pc'[p] = "idle"
                        /\ ret'.err = ErrImproperlyInitializedQueue
                        /\ <<nodes, head, tail, added>>' = <<nodes, head, tail, added>>]_vars

\* AddMany of two values returned nil on a queue that held one message and
\* does no automatic cleanup
C30_Witness ==
    /\ Constructed
    /\ ~config.autoCleanup
    /\ ret.op = "AddMany"
    /\ ret.err = ErrNil
    /\ added = 3
    /\ ListVals(nodes, head, tail) = <<"b", "a", "b">>
    /\ delivered = {}
    /\ clock = 1

\* the queue holds no more than retentionCount messages, none of them older
\* than retentionTime
WithinRetention == lengthNoLock(Q) <= config.retentionCount /\ NoneExpired

\* C31.  Cleanup within the retention limits: when Length <= retentionCount
\* and no message is older than retentionTime, Cleanup() returns 0 and leaves
\* head, tail, the messages and Length as they were.
C31_CleanupNoOp ==
    [][\A p \in Procs :
        (Returns(p, "Cleanup") /\ Constructed /\ WithinRetention)
        => /\ pc'[p] = "idle"
           /\ ret'.n = 0
           /\ <<nodes, head, tail>>' = <<nodes, head, tail>>
           /\ lengthNoLock(Q') = lengthNoLock(Q)]_vars

\* Cleanup() returned 0 on a queue with the default config that holds the
\* three messages added to it
C31_Witness ==
    /\ Constructed
    /\ config = DefaultConfig
    /\ ret.op = "Cleanup"
    /\ ret.n = 0
    /\ Len(Chain(nodes, head, tail)) = 3
    /\ added = 3
    /\ evicted = {}

\* every message enqueued was returned to a reader, or evicted, or is in the
\* queue, and only one of the three
Conserved ==
    Constructed
    => /\ added = Cardinality(delivered) + Cardinality(evicted) + lengthNoLock(Q)
       /\ delivered \cap evicted = {}
       /\ (delivered \cup evicted) \cap Between(nodes, head, tail) = {}

\* C32.  Conservation of messages: in every state the number of messages
\* ever enqueued is the number Read and ReadMany returned plus the number the
\* explicit and automatic cleanups evicted plus Length; no message is both
\* returned to a reader and evicted.  The number returned grows by what a
\* read returns, the number evicted by what Cleanup() reports.
C32_Conservation ==
    [][/\ Conserved
       /\ Conserved'
       /\ \A p \in Procs :
            Constructed
            => /\ Returns(p, "ReadMany")
                    => Cardinality(delivered') = Cardinality(delivered) + Len(ret'.msgs)
               /\ Returns(p, "Read")
                    => Cardinality(delivered')
                           = Cardinality(delivered) + (IF ret'.err = ErrNil THEN 1 ELSE 0)
               /\ Returns(p, "Cleanup")
                    => /\ Cardinality(evicted') = Cardinality(evicted) + ret'.n
                       /\ delivered' = delivered
               /\ (\E name \in {"IsEmpty", "Length", "PeekNext", "Add", "AddMany"} :
                       Returns(p, name))
                    => delivered' = delivered]_vars

\* of four messages enqueued one was read, one evicted, and two are in the
\* queue, with no call in progress
C32_Witness ==
    /\ Constructed
    /\ added = 4
    /\ Cardinality(delivered) = 1
    /\ Cardinality(evicted) = 1
    /\ lengthNoLock(Q) = 2
    /\ \A p \in Procs : pc[p] = "idle"

\* this step is the return of a call with an error
ReturnsError == ret'.proc # NoProc /\ ret'.err # ErrNil

\* the step leaves head, tail and every node as they were
QueueUnchanged == <<nodes, head, tail>>' = <<nodes, head, tail>>

\* C33.  Error frame: a call that returns an error leaves tail and the
\* config as they were; it leaves head and every message as they were too,
\* unless autoCleanup is enabled and the error is ErrQueueIsEmpty: Read,
\* ReadMany and PeekNext run the cleanup before they find the queue empty, so
\* that error may follow the eviction of every message the queue held.
C33_ErrorFrame ==
    [][ReturnsError
       => /\ tail' = tail
          /\ config' = config
          /\ ret'.err \in Errors \ {ErrNil, ErrInvalidConfig}
          /\ (~config.autoCleanup \/ ret'.err # ErrQueueIsEmpty) => QueueUnchanged
          /\ (Constructed /\ ret'.err = ErrQueueIsEmpty)
               => /\ head' = tail
                  /\ head' = Cleaned.head
                  /\ ret'.op \in {"Read", "ReadMany", "PeekNext"}
                  /\ evicted' = evicted \cup Between(nodes, head, tail)
                  /\ delivered' = delivered]_vars

\* C33 as stated: a call that returns an error leaves head, tail and every
\* message as they were, also when autoCleanup is enabled
C33_ErrorChangesNothing ==
    [][ReturnsError => QueueUnchanged]_vars

\* Read returned ErrQueueIsEmpty after the automatic cleanup had evicted the
\* only message of the queue
C33_Witness ==
    /\ Constructed
    /\ config.autoCleanup
    /\ ret.op = "Read"
    /\ ret.err = ErrQueueIsEmpty
    /\ head = tail
    /\ added = 1
    /\ Cardinality(evicted) = 1
    /\ delivered = {}

Queries == {"IsEmpty", "Length", "PeekNext"}

\* C35.  Pure queries: with autoCleanup disabled IsEmpty, Length and PeekNext
\* on a queue made by a constructor answer from the queue as it is and leave
\* head, tail, the messages and the config as they were, so that whatever is
\* called next returns what it would have returned without them.
C35_PureQueries ==
    [][\A p \in Procs :
        (Constructed /\ ~config.autoCleanup /\ \E name \in Queries : Returns(p, name))
        => /\ pc'[p] = "idle"
           /\ QueueUnchanged
           /\ config' = config
           /\ UNCHANGED <<added, fifo, delivered, evicted>>
           /\ Returns(p, "IsEmpty") => ret'.b = isEmptyNoLock(Q)
           /\ Returns(p, "Length") => ret'.n = lengthNoLock(Q)
           /\ Returns(p, "PeekNext")
                => IF isEmptyNoLock(Q) THEN ret'.err = ErrQueueIsEmpty
                   ELSE ret'.err = ErrNil /\ ret'.msg = nodes[head].message
           /\ ReadManyBody(Q, MaxLimit, clock)' = ReadManyBody(Q, MaxLimit, clock)
           /\ PeekNextBody(Q, clock)' = PeekNextBody(Q, clock)
           /\ LengthBody(Q, clock)' = LengthBody(Q, clock)
           /\ CleanupBody(Q, clock)' = CleanupBody(Q, clock)]_vars

\* PeekNext returned the message at head, which is older than retentionTime,
\* and left it in the queue with the one behind it
C35_Witness ==
    /\ Constructed
    /\ ~config.autoCleanup
    /\ ret.op = "PeekNext"
    /\ ret.err = ErrNil
    /\ head # tail
    /\ ret.msg = nodes[head].message
    /\ Age(head) > config.retentionTime
    /\ lengthNoLock(Q) = 2

\* C36.  What Cleanup returns: on every queue made by a constructor and with
\* every config, Cleanup() returns Length before the call minus Length after
\* it, the evictions of the count pass and of the age pass together: the
\* number of messages head has passed.
C36_CleanupCount ==
    [][\A p \in Procs :
        (Returns(p, "Cleanup") /\ Constructed)
        => /\ pc'[p] = "idle"
           /\ ret'.err = ErrNil
           /\ ret'.n = lengthNoLock(Q) - lengthNoLock(Q')
           /\ ret'.n = Cardinality(Between(nodes, head, head'))
           /\ ret'.n = Len(Chain(nodes, head, tail)) - Len(Chain(nodes', head', tail'))
           /\ ret'.n = Cardinality(evicted') - Cardinality(evicted)]_vars

\* Cleanup() returned 2, the two messages older than retentionTime, and left
\* the third
C36_Witness ==
    /\ Constructed
    /\ ret.op = "Cleanup"
    /\ ret.n = 2
    /\ config.retentionTime = 1
    /\ config.retentionCount > 2
    /\ lengthNoLock(Q) = 1
    /\ added = 3
    /\ delivered = {}

\* Cleanup() called on the queue as it is now would return 0 and change nothing
CleanupIsNoOp ==
    /\ CleanupBody(Q, clock).ret.n = 0
    /\ CleanupBody(Q, clock).q = Q
    /\ ~CleanupBody(Q, clock).panic

\* C37.  Cleanup is idempotent at a fixed clock: when Cleanup() has returned,
\* a second Cleanup() with nothing enqueued and no time elapsed in between
\* returns 0 and changes nothing; so does a Cleanup() called right after an
\* Add or AddMany that ran the automatic cleanup, and one called after reads.
C37_CleanupIdempotent ==
    [][\A p \in Procs :
        Constructed
        => /\ Returns(p, "Cleanup") => CleanupIsNoOp'
           /\ (config.autoCleanup /\ \E name \in Observers \cup {"Add", "AddMany"} :
                  Returns(p, name))
                => CleanupIsNoOp'
           /\ (CleanupIsNoOp /\ \E name \in Observers : Returns(p, name))
                => CleanupIsNoOp']_vars

\* Cleanup() evicted one of two messages by count; called again at once it
\* would return 0
C37_Witness ==
    /\ Constructed
    /\ ret.op = "Cleanup"
    /\ ret.n = 1
    /\ config.retentionCount = 1
    /\ lengthNoLock(Q) = 1
    /\ added = 2
    /\ CleanupIsNoOp

\* the messages a read returned with this step, and the nodes they were read at
Returned == IF ret'.op = "ReadMany" THEN ret'.msgs ELSE <<ret'.msg>>

\* C38.  Messages are returned as enqueued: a message gets its value, the
\* next offset and the append time of its call when it is enqueued, keeps them
\* while it is in the queue, and is returned with them by Read, ReadMany and
\* PeekNext.  Within one ReadMany result the offsets are consecutive; every
\* message a read returns was enqueued after all those returned before and,
\* until the offsets wrap, has a higher offset; every message enqueued before
\* it was returned by an earlier read or evicted by a cleanup.
C38_ReturnedAsEnqueued ==
    [][Constructed
       => /\ \A n \in Between(nodes, head, tail) \cap Between(nodes', head', tail') :
               nodes'[n].message = nodes[n].message
          /\ \A n \in Between(nodes, head, tail) :
               nodes[n].message.Offset = Wrap(n - 1)
          /\ \A p \in Procs :
               /\ (pc[p] = "loop" /\ Appends)
                    => nodes'[tail].message
                          = [Val |-> op[p].vals[idx[p]],
                             Offset |-> nodes[tail].message.Offset,
                             LogAppendTime |-> appendTime[p]]
               /\ (Returns(p, "PeekNext") /\ ret'.err = ErrNil)
                    => /\ ret'.msg = nodes[Cleaned.head].message
                       /\ Cleaned.head \in Between(nodes, head, tail)
               /\ ((Returns(p, "Read") \/ Returns(p, "ReadMany")) /\ ret'.err = ErrNil)
                    => LET ids == ret'.ids
                           msgs == Returned
                       IN  /\ Len(msgs) = Len(ids)
                           /\ Len(ids) >= 1
                           /\ \A i \in 1..Len(ids) :
                                /\ ids[i] \in Between(nodes, head, tail)
                                /\ msgs[i] = nodes[ids[i]].message
                           /\ \A i \in 1..(Len(ids) - 1) :
                                /\ ids[i + 1] = nodes[ids[i]].next
                                /\ msgs[i + 1].Offset = Wrap(msgs[i].Offset + 1)
                           /\ \A d \in delivered :
                                /\ d < ids[1]
                                /\ msgs[1].Offset >= 0 => Wrap(d - 1) < msgs[1].Offset
                           /\ \A a \in 1..(ids[1] - 1) : a \in delivered \cup evicted']_vars

\* ReadMany returned the third and fourth message enqueued; the first had
\* been read before and the second evicted in between
C38_Witness ==
    /\ Constructed
    /\ ret.op = "ReadMany"
    /\ ret.err = ErrNil
    /\ ret.ids = <<3, 4>>
    /\ delivered = {1, 3, 4}
    /\ evicted = {2}
    /\ ret.msgs[1].Offset = 2
    /\ ret.msgs[2].Offset = 3

====
